---- MODULE Spec2Model ----
(***************************************************************************)
(* Model of community_share/models/base.py: the Serializable mixin.        *)
(*                                                                         *)
(* Python values are records [type, text, n, tz]; an entity is a function  *)
(* from its attribute names to values; a data dictionary is a function     *)
(* from a subset of the key names to values.  A naive datetime is counted  *)
(* in whole clock units (n) and has tz = {}; an aware one has tz = {off}.  *)
(* Each call records its arguments and outcome in the variable call, and   *)
(* the step Return ends it before the next call is made.                   *)
(***************************************************************************)
EXTENDS Integers, Sequences, FiniteSets, TLC

\* ------------------------------------------------------------------ bounds
\* Wall-clock readings of a date/time run over 0..MaxTime.
MaxTime == 1

\* ------------------------------------------------------------ Python values
PyNone == [type |-> "NoneType", text |-> "", n |-> 0, tz |-> {}]

PyStr(s) == [type |-> "str", text |-> s, n |-> 0, tz |-> {}]

PyInt(i) == [type |-> "int", text |-> "", n |-> i, tz |-> {}]

PyBool(b) == [type |-> "bool", text |-> "", n |-> IF b THEN 1 ELSE 0, tz |-> {}]

\* datetime.datetime with wall-clock reading w; z = {} naive, z = {off} aware.
PyDateTime(w, z) == [type |-> "datetime", text |-> "", n |-> w, tz |-> z]

\* The text of wall-clock reading w in format fmt, with time-zone designator
\* z ({}: none, {off}: "+off").
DateStr(fmt, w, z) == [type |-> "str", text |-> fmt, n |-> w, tz |-> z]

\* Two textual formats of a date ("2020-01-01T10:00:00", "Jan 1 2020 10:00").
Formats == {"iso", "rfc"}

\* UTC offsets a designator may carry, in clock units.
Offsets == {0, 1}

Times == 0..MaxTime

\* The date texts of requests: without a designator in either format, with
\* one in the iso format.
DateStrings ==
    {DateStr(f, w, {}) : f \in Formats, w \in Times}
    \cup {DateStr("iso", w, {o}) : w \in Times, o \in Offsets}

IsDateString(v) == v.type = "str" /\ v.text \in Formats

\* Python truth value of v (not v == ~Truthy(v)).
Truthy(v) ==
    CASE v.type = "NoneType" -> FALSE
      [] v.type = "bool" -> v.n = 1
      [] v.type = "int" -> v.n # 0
      [] v.type = "str" -> v.text # ""
      [] OTHER -> TRUE

\* dateutil.parser.parse(v): a datetime with the text's wall-clock reading and
\* its designator as tzinfo; TypeError for a non-string, ValueError for text
\* that is no date.
DateutilParse(v) ==
    IF v.type # "str" THEN [raised |-> "TypeError", value |-> PyNone]
    ELSE IF ~IsDateString(v) THEN [raised |-> "ValueError", value |-> PyNone]
    ELSE [raised |-> "none", value |-> PyDateTime(v.n, v.tz)]

\* datetime.replace(tzinfo=None): the same wall-clock reading, the offset dropped.
ReplaceTzinfoNone(dt) == PyDateTime(dt.n, {})

\* The instant a date/time value or a date string denotes, in clock units
\* from the epoch in UTC: wall clock minus offset (a naive one is read as UTC).
Instant(v) == v.n - (IF v.tz = {} THEN 0 ELSE CHOOSE o \in v.tz : TRUE)

\* ---------------------------------------------------------------- requesters
NoRequester == [present |-> FALSE, is_administrator |-> FALSE]

Requesters ==
    {NoRequester} \cup {[present |-> TRUE, is_administrator |-> a] : a \in BOOLEAN}

\* ------------------------------------------------------------------- classes
\* Column names of the modelled entity class besides id and active.
Fields == {"name", "when"}

Columns == {"id", "active"} \cup Fields

\* Serializable.PERMISSIONS of the base class.
PERMISSIONS == [all_can_read_many |-> FALSE, standard_can_read_many |-> FALSE,
                admin_can_delete |-> FALSE]

\* The class attributes of the base class Serializable.
BaseClass ==
    [MANDATORY_FIELDS |-> {}, WRITEABLE_ONCE_FIELDS |-> {}, WRITEABLE_FIELDS |-> {},
     STANDARD_READABLE_FIELDS |-> {"id"}, ADMIN_READABLE_FIELDS |-> {"id"},
     custom_serializers |-> {}, custom_deserializers |-> {},
     PERMISSIONS |-> PERMISSIONS, attributes |-> Columns]

\* ------------------------------------------------------------- permissions
has_add_rights(data, requester) == requester.present /\ requester.is_administrator

has_standard_rights(requester) == requester.present

has_admin_rights(requester) == requester.present /\ requester.is_administrator

has_delete_rights(c, requester) ==
    /\ requester.present
    /\ \/ requester.is_administrator
       \/ (c.PERMISSIONS.admin_can_delete /\ has_admin_rights(requester))

hasattr(c, name) == name \in c.attributes

\* --------------------------------------------------------------- serialize
\* A registered custom serializer: subclass code, called with the entity and
\* the requester; its value is opaque here.
CustomSerializer(e, key, requester) == PyStr("custom")

\* The field names serialize picks for the requester's tier (lines 67-72);
\* "denied" stands for the early return of None.
ReadableFieldnames(c, requester) ==
    IF has_admin_rights(requester) THEN [denied |-> FALSE, names |-> c.ADMIN_READABLE_FIELDS]
    ELSE IF has_standard_rights(requester)
         THEN [denied |-> FALSE, names |-> c.STANDARD_READABLE_FIELDS]
         ELSE [denied |-> TRUE, names |-> {}]

\* Mutant: the exclusion list is applied to id as well.
SerializeKeys_ExcludeId(c, fieldnames, exclude) ==
    (fieldnames \cup (IF hasattr(c, "id") THEN {"id"} ELSE {})) \ exclude

\* The keys of the dictionary comprehension (line 79).
SerializeKeys(c, fieldnames, exclude) ==
    (fieldnames \ exclude) \cup (IF hasattr(c, "id") THEN {"id"} ELSE {})

\* serialize(self, requester, exclude): [raised, none, dict].  getattr of a name
\* that is no attribute raises AttributeError.
serialize(c, e, requester, exclude) ==
    LET sel == ReadableFieldnames(c, requester)
        keys == SerializeKeys(c, sel.names, exclude)
    IN  IF sel.denied
        THEN [raised |-> "none", none |-> TRUE, dict |-> [k \in {} |-> PyNone]]
        ELSE IF \E k \in keys : k \notin c.custom_serializers /\ ~hasattr(c, k)
        THEN [raised |-> "AttributeError", none |-> FALSE, dict |-> [k \in {} |-> PyNone]]
        ELSE [raised |-> "none", none |-> FALSE,
              dict |-> [k \in keys |->
                          IF k \in c.custom_serializers
                          THEN CustomSerializer(e, k, requester) ELSE e[k]]]

\* ------------------------------------------------------------------ delete
\* Mutant: only an administrator's call deactivates.
delete_AdminOnly(e, requester) ==
    IF Truthy(e["active"]) /\ requester.present /\ requester.is_administrator
    THEN [item |-> [e EXCEPT !["active"] = PyBool(FALSE)],
          session_add |-> TRUE, on_delete |-> TRUE]
    ELSE [item |-> e, session_add |-> FALSE, on_delete |-> FALSE]

\* Mutant: no test of previously_deleted.
delete_NoGuard(e, requester) ==
    [item |-> [e EXCEPT !["active"] = PyBool(FALSE)], session_add |-> TRUE, on_delete |-> TRUE]

\* delete(self, requester): the entity afterwards, whether store.session.add
\* was called and whether on_delete was called.
delete(e, requester) ==
    LET previously_deleted == ~Truthy(e["active"])
    IN  IF ~previously_deleted
        THEN [item |-> [e EXCEPT !["active"] = PyBool(FALSE)],
              session_add |-> TRUE, on_delete |-> TRUE]
        ELSE [item |-> e, session_add |-> FALSE, on_delete |-> FALSE]

\* ---------------------------------------------------- admin_deserialize_update
\* A registered custom deserializer: subclass code, called with the entity and
\* the raw value; modelled as storing the value in the attribute of its name.
CustomDeserializer(e, fieldname, value) == [e EXCEPT ![fieldname] = value]

\* Mutant: the add-path set is allowed on every update.
UpdateFieldnames_AddAlways(c, add) ==
    c.MANDATORY_FIELDS \cup c.WRITEABLE_FIELDS \cup c.WRITEABLE_ONCE_FIELDS

\* The allowed field names (lines 111-118).
UpdateFieldnames(c, add) ==
    IF add
    THEN c.MANDATORY_FIELDS \cup c.WRITEABLE_FIELDS \cup c.WRITEABLE_ONCE_FIELDS
    ELSE c.WRITEABLE_FIELDS

\* new_value of lines 128-131: the input, or for a current value of type
\* datetime the input parsed and made naive.
NewValue(current, raw) ==
    IF current.type = "datetime"
    THEN LET p == DateutilParse(raw)
         IN  IF p.raised # "none" THEN p
             ELSE [raised |-> "none", value |-> ReplaceTzinfoNone(p.value)]
    ELSE [raised |-> "none", value |-> raw]

\* The value setattr stores (line 135).
AssignedValue(data, fieldname, new_value) == data[fieldname]

\* One iteration of the loop over data.keys() (lines 119-135).  st is
\* [item, raised, assigned, custom]: the entity so far, the exception raised
\* ("none": none), the names setattr was called for, and the names whose
\* custom deserializer ran.
UpdateKey(c, st, data, fieldname, fieldnames) ==
    IF st.raised # "none" THEN st
    ELSE IF fieldname \in c.custom_deserializers
    THEN [st EXCEPT !.item = CustomDeserializer(st.item, fieldname, data[fieldname]),
                    !.custom = @ \cup {fieldname}]
    ELSE IF fieldname \in fieldnames /\ hasattr(c, fieldname)
    THEN LET current == st.item[fieldname]
             nv == NewValue(current, data[fieldname])
         IN  IF nv.raised # "none" THEN [st EXCEPT !.raised = nv.raised]
             ELSE IF current # nv.value
             THEN [st EXCEPT !.item = [st.item EXCEPT ![fieldname] =
                                          AssignedValue(data, fieldname, nv.value)],
                             !.assigned = @ \cup {fieldname}]
             ELSE st
    ELSE st

RECURSIVE UpdateLoop(_, _, _, _, _)
UpdateLoop(c, st, data, order, fieldnames) ==
    IF order = <<>> THEN st
    ELSE UpdateLoop(c, UpdateKey(c, st, data, Head(order), fieldnames),
                    data, Tail(order), fieldnames)

\* admin_deserialize_update(self, data, add); order is the iteration order of
\* data.keys().
admin_deserialize_update(c, e, data, order, add) ==
    UpdateLoop(c, [item |-> e, raised |-> "none", assigned |-> {}, custom |-> {}],
               data, order, UpdateFieldnames(c, add))

\* ------------------------------------------------------- admin_deserialize_add
\* cls(): a fresh instance, every attribute None.
NewInstance(c) == [a \in c.attributes |-> PyNone]

\* Mutant: a mandatory key with a null value counts as missing.
MissingMandatory_Null(c, data) ==
    {f \in c.MANDATORY_FIELDS : f \notin DOMAIN data \/ data[f] = PyNone}

\* The mandatory names that are no key of data (lines 102-104).
MissingMandatory(c, data) == {f \in c.MANDATORY_FIELDS : f \notin DOMAIN data}

\* admin_deserialize_add(cls, data): [raised, returned, item]; returned is
\* "new" when the fresh instance is returned.
admin_deserialize_add(c, data, order) ==
    IF MissingMandatory(c, data) # {}
    THEN [raised |-> "ValidationException", returned |-> "nothing", item |-> NewInstance(c)]
    ELSE LET u == admin_deserialize_update(c, NewInstance(c), data, order, TRUE)
         IN  IF u.raised # "none"
             THEN [raised |-> u.raised, returned |-> "nothing", item |-> u.item]
             ELSE [raised |-> "none", returned |-> "new", item |-> u.item]

\* ----------------------------------------------------------- admin_deserialize
\* data.get('id', None)
DataGetId(data) == IF "id" \in DOMAIN data THEN data["id"] ELSE PyNone

\* store.session.query(cls).filter(cls.id == data['id']).first(): the ids of
\* the stored entities with that id (active or not); empty when there is none.
QueryById(st, idv) == {i \in DOMAIN st : st[i]["id"] = idv}

\* Mutant: an id that resolves to nothing falls back to the add path.
DeserializeBranch_Upsert(st, data) ==
    IF DataGetId(data) # PyNone /\ QueryById(st, DataGetId(data)) # {} THEN "update" ELSE "add"

\* Which branch admin_deserialize takes (lines 139-145).
DeserializeBranch(st, data) ==
    IF DataGetId(data) # PyNone
    THEN IF QueryById(st, DataGetId(data)) # {} THEN "update" ELSE "none"
    ELSE "add"

\* admin_deserialize(cls, data): [raised, returned, store, item]; returned is
\* "stored" (item is the updated stored entity), "new" or "None".
admin_deserialize(c, st, data, order) ==
    LET branch == DeserializeBranch(st, data)
    IN  CASE branch = "update" ->
               LET i == CHOOSE i \in QueryById(st, DataGetId(data)) : TRUE
                   u == admin_deserialize_update(c, st[i], data, order, FALSE)
               IN  [raised |-> u.raised,
                    returned |-> IF u.raised = "none" THEN "stored" ELSE "nothing",
                    store |-> [st EXCEPT ![i] = u.item], item |-> u.item]
          [] branch = "none" ->
               [raised |-> "none", returned |-> "None", store |-> st, item |-> PyNone]
          [] OTHER ->
               LET a == admin_deserialize_add(c, data, order)
               IN  [raised |-> a.raised, returned |-> a.returned, store |-> st,
                    item |-> a.item]

\* ------------------------------------------------------ _args_to_filter_params
\* Names hasattr(cls, name) finds on the class besides its columns: the
\* methods and class attributes of Serializable.
NonColumnAttributes ==
    {"MANDATORY_FIELDS", "WRITEABLE_ONCE_FIELDS", "WRITEABLE_FIELDS",
     "STANDARD_READABLE_FIELDS", "ADMIN_READABLE_FIELDS", "PERMISSIONS",
     "has_add_rights", "has_standard_rights", "has_admin_rights", "has_delete_rights",
     "custom_serializers", "serialize", "delete", "on_delete", "on_add", "on_edit",
     "custom_deserializers", "admin_deserialize_add", "admin_deserialize_update",
     "admin_deserialize", "CONDITION_MAPPING", "_args_to_filter_params",
     "_args_to_query", "args_to_query"}

ClassHasattr(c, name) == name \in c.attributes \cup NonColumnAttributes

IsColumn(c, name) == name \in c.attributes

\* The SQL type of each column of the modelled class.
ColumnType(name) ==
    CASE name = "id" -> "Integer"
      [] name = "active" -> "Boolean"
      [] name = "when" -> "DateTime"
      [] OTHER -> "String"

\* The keys of CONDITION_MAPPING.
CONDITION_MAPPING == {"greaterthanorequal", "greaterthan", "lessthanorequal", "lessthan"}

UnknownFilter == "Exception: Unknown filter parameter"

\* args[key] of a MultiDict: the first value of the key.
ArgsGet(entry) == Head(entry.values)

\* The value of a one-segment equality filter (lines 181-187).
EqualityValue(typ, value) ==
    IF typ = "Boolean"
    THEN IF value = PyStr("true") THEN PyBool(TRUE)
         ELSE IF value = PyStr("false") THEN PyBool(FALSE) ELSE value
    ELSE value

\* What a key of more than two segments whose first segment is an attribute
\* of the class does (lines 161-162).
LongKey(st) == [st EXCEPT !.raised = UnknownFilter]

\* Mutant: an unknown first segment raises the unknown-filter error.
UnknownBase_Raises(st) == [st EXCEPT !.raised = UnknownFilter]

\* What a key whose first segment is no attribute of the class does (the
\* absent else of line 160).
UnknownBase(st) == st

\* One iteration of the loop over args.keys() (lines 158-189).  st is
\* [raised, filters]; entry is [key, values]: the key's segments (key.split('.'))
\* and args.getlist(key).
FilterKey(c, st, entry) ==
    LET bits == entry.key
        b0 == bits[1]
    IN  IF st.raised # "none" THEN st
        ELSE IF ClassHasattr(c, b0)
        THEN IF Len(bits) > 2 THEN LongKey(st)
             ELSE IF Len(bits) = 2
             THEN CASE bits[2] \in {"like", "ilike"} ->
                         IF Truthy(ArgsGet(entry))
                         THEN IF ~IsColumn(c, b0) THEN [st EXCEPT !.raised = "AttributeError"]
                              ELSE [st EXCEPT !.filters = Append(@,
                                      [field |-> b0, op |-> bits[2], value |-> <<ArgsGet(entry)>>])]
                         ELSE st
                    [] bits[2] \in {"in"} ->
                         IF entry.values # <<>>
                         THEN IF ~IsColumn(c, b0) THEN [st EXCEPT !.raised = "AttributeError"]
                              ELSE [st EXCEPT !.filters = Append(@,
                                      [field |-> b0, op |-> "in", value |-> entry.values])]
                         ELSE st
                    [] bits[2] \in CONDITION_MAPPING ->
                         IF Truthy(ArgsGet(entry))
                         THEN IF ~IsColumn(c, b0) THEN [st EXCEPT !.raised = "TypeError"]
                              ELSE [st EXCEPT !.filters = Append(@,
                                      [field |-> b0, op |-> bits[2], value |-> <<ArgsGet(entry)>>])]
                         ELSE st
                    [] OTHER -> [st EXCEPT !.raised = UnknownFilter]
             ELSE IF ~IsColumn(c, b0) THEN [st EXCEPT !.raised = "AttributeError"]
                  ELSE [st EXCEPT !.filters = Append(@,
                          [field |-> b0, op |-> "eq",
                           value |-> <<EqualityValue(ColumnType(b0), ArgsGet(entry))>>])]
        ELSE UnknownBase(st)

RECURSIVE FilterLoop(_, _, _)
FilterLoop(c, st, args) ==
    IF args = <<>> THEN st
    ELSE FilterLoop(c, FilterKey(c, st, Head(args)), Tail(args))

\* The first element of filter_args (line 157).
ActiveFilter == [field |-> "active", op |-> "eq", value |-> <<PyBool(TRUE)>>]

\* _args_to_filter_params(cls, args): [raised, filters]; args is the sequence
\* of the mapping's entries in the order of args.keys().
args_to_filter_params(c, args) ==
    FilterLoop(c, [raised |-> "none", filters |-> <<ActiveFilter>>], args)

\* ------------------------------------------------------------------- inputs
\* The ids of the stored entities, and the ids a request may name.
StoredIds == {1}

RequestIds == {1, 2}

\* The values a request may carry for a key.
InputValues(key) ==
    CASE key = "id" -> {PyNone} \cup {PyInt(i) : i \in RequestIds}
      [] key = "when" -> DateStrings \cup {PyNone, PyStr("x")}
      [] OTHER -> {PyStr("y")}

AllInputValues == UNION {InputValues(k) : k \in {"id"} \cup Fields}

\* The dictionaries with keys among keys.
DataDicts(keys) ==
    UNION {{d \in [S -> AllInputValues] : \A k \in S : d[k] \in InputValues(k)} :
           S \in SUBSET keys}

\* The orders in which the keys S of a dictionary may be iterated.
Orders(S) ==
    {o \in [1..Cardinality(S) -> S] : \A i, j \in 1..Cardinality(S) : i # j => o[i] # o[j]}

\* A dictionary together with the iteration order of its keys.
Ordered(dicts) == {<<d, o>> : d \in dicts, o \in UNION {Orders(S) : S \in SUBSET ({"id"} \cup Fields)}}

OrderedDicts(keys) == {p \in Ordered(DataDicts(keys)) : p[2] \in Orders(DOMAIN p[1])}

\* The requests of the update and add paths and of admin_deserialize.
FieldRequests == OrderedDicts(Fields)

IdRequests == OrderedDicts({"id"} \cup Fields)

\* A subclass declaring its writable sets and custom deserializers; every
\* column is readable by an administrator, name by any requester.
WriteClass(m, w, o, cd) ==
    [BaseClass EXCEPT !.MANDATORY_FIELDS = m, !.WRITEABLE_FIELDS = w,
                      !.WRITEABLE_ONCE_FIELDS = o, !.custom_deserializers = cd,
                      !.STANDARD_READABLE_FIELDS = {"id", "name"},
                      !.ADMIN_READABLE_FIELDS = {"id"} \cup Fields]

\* The subclasses the write path is run on; one of them sets admin_can_delete.
WriteClasses ==
    {WriteClass(m, w, o, {}) : m \in SUBSET Fields, w \in SUBSET Fields, o \in SUBSET {"when"}}
    \cup {WriteClass({}, w, {}, {"name"}) : w \in SUBSET Fields}
    \cup {[WriteClass({}, {}, {}, {}) EXCEPT !.PERMISSIONS.admin_can_delete = TRUE]}

\* A stored entity as loaded from the database: active, its columns typed.
StoredEntities(i) ==
    {[a \in Columns |->
        CASE a = "id" -> PyInt(i)
          [] a = "active" -> PyBool(TRUE)
          [] a = "name" -> PyStr("x")
          [] OTHER -> w] : w \in {PyNone} \cup {PyDateTime(t, {}) : t \in Times}}

\* -------------------------------------------------------------------- state
VARIABLES
    cls,              \* the class: its field lists, tables and attributes
    store,            \* the stored entities, by id
    on_delete_calls,  \* per stored entity, how often on_delete was invoked
    session_adds,     \* how often store.session.add was called
    call              \* the last call: its operation, arguments and outcome

vars == <<cls, store, on_delete_calls, session_adds, call>>

Init ==
    /\ cls \in WriteClasses
    /\ store \in {st \in [StoredIds -> UNION {StoredEntities(i) : i \in StoredIds}] :
                    \A i \in StoredIds : st[i] \in StoredEntities(i)}
    /\ on_delete_calls = [i \in StoredIds |-> 0]
    /\ session_adds = 0
    /\ call = [op |-> "none"]

\* item.delete(requester) on the stored entity i.
Delete(i, requester) ==
    LET r == delete(store[i], requester)
    IN  /\ call.op = "none"
        /\ store' = [store EXCEPT ![i] = r.item]
        /\ on_delete_calls' = [on_delete_calls EXCEPT ![i] = @ + (IF r.on_delete THEN 1 ELSE 0)]
        /\ session_adds' = session_adds + (IF r.session_add THEN 1 ELSE 0)
        /\ call' = [op |-> "delete", target |-> i, requester |-> requester,
                    before |-> store[i], session_add |-> r.session_add,
                    on_delete |-> r.on_delete]
        /\ UNCHANGED cls

\* item.admin_deserialize_update(data) on the stored entity i.
Update(i, data, order) ==
    LET u == admin_deserialize_update(cls, store[i], data, order, FALSE)
    IN  /\ call.op = "none"
        /\ store' = [store EXCEPT ![i] = u.item]
        /\ call' = [op |-> "update", target |-> i, data |-> data, before |-> store[i],
                    raised |-> u.raised, assigned |-> u.assigned, custom |-> u.custom]
        /\ UNCHANGED <<cls, on_delete_calls, session_adds>>

\* cls.admin_deserialize_add(data).
Add(data, order) ==
    LET a == admin_deserialize_add(cls, data, order)
    IN  /\ call.op = "none"
        /\ call' = [op |-> "add", data |-> data, raised |-> a.raised,
                    returned |-> a.returned, item |-> a.item]
        /\ UNCHANGED <<cls, store, on_delete_calls, session_adds>>

\* cls.admin_deserialize(data).
Deserialize(data, order) ==
    LET r == admin_deserialize(cls, store, data, order)
    IN  /\ call.op = "none"
        /\ store' = r.store
        /\ call' = [op |-> "deserialize", data |-> data, before |-> store,
                    raised |-> r.raised, returned |-> r.returned, item |-> r.item]
        /\ UNCHANGED <<cls, on_delete_calls, session_adds>>

\* The writable subset of a serialized dictionary.
WritableSubset(c, dict) ==
    [k \in DOMAIN dict \cap c.WRITEABLE_FIELDS |-> dict[k]]

\* The round trip: item.serialize(requester), its writable subset fed back
\* to item.admin_deserialize_update.
RoundTrip(i, requester, order) ==
    LET s == serialize(cls, store[i], requester, {})
        data == WritableSubset(cls, s.dict)
        u == admin_deserialize_update(cls, store[i], data, order, FALSE)
    IN  /\ call.op = "none"
        /\ ~s.none
        /\ s.raised = "none"
        /\ order \in Orders(DOMAIN data)
        /\ store' = [store EXCEPT ![i] = u.item]
        /\ call' = [op |-> "roundtrip", target |-> i, requester |-> requester,
                    data |-> data, before |-> store[i], raised |-> u.raised,
                    assigned |-> u.assigned, custom |-> u.custom]
        /\ UNCHANGED <<cls, on_delete_calls, session_adds>>

\* The call returns to its caller, which goes on to the next request.
Return ==
    /\ call.op # "none"
    /\ call' = [op |-> "none"]
    /\ UNCHANGED <<cls, store, on_delete_calls, session_adds>>

FieldOrders == UNION {Orders(S) : S \in SUBSET Fields}

\* No call is in progress: the caller may make the next one.
Idle == call.op = "none"

DeleteCall == Idle /\ \E i \in StoredIds, requester \in Requesters : Delete(i, requester)

UpdateCall == Idle /\ \E i \in StoredIds, p \in FieldRequests : Update(i, p[1], p[2])

AddCall == Idle /\ \E p \in FieldRequests : Add(p[1], p[2])

DeserializeCall == Idle /\ \E p \in IdRequests : Deserialize(p[1], p[2])

RoundTripCall ==
    Idle /\ \E i \in StoredIds, requester \in Requesters, order \in FieldOrders :
                RoundTrip(i, requester, order)

Next ==
    \/ DeleteCall
    \/ UpdateCall
    \/ AddCall
    \/ DeserializeCall
    \/ RoundTripCall
    \/ Return

Spec == Init /\ [][Next]_vars

\* ------------------------------------------------------- the serializer alone
\* Exclusion lists a caller may pass.
Excludes == SUBSET ({"id"} \cup Fields)

\* A subclass declaring its readable sets and custom serializers, with the
\* given attributes.
ReadClass(std, adm, cs, attrs) ==
    [BaseClass EXCEPT !.STANDARD_READABLE_FIELDS = std, !.ADMIN_READABLE_FIELDS = adm,
                      !.custom_serializers = cs, !.attributes = attrs]

\* The subclasses serialize is run on, with and without an id attribute: every
\* readable name is an attribute or has a custom serializer.
ReadClasses ==
    {c \in {ReadClass(std, adm, cs, attrs) :
              std \in SUBSET ({"id"} \cup Fields), adm \in SUBSET ({"id"} \cup Fields),
              cs \in SUBSET {"name"}, attrs \in {Columns, Columns \ {"id"}}} :
        (c.STANDARD_READABLE_FIELDS \cup c.ADMIN_READABLE_FIELDS) \ c.custom_serializers
            \subseteq c.attributes}

InitSerialize ==
    /\ cls \in ReadClasses
    /\ store \in {st \in [StoredIds -> UNION {{[a \in cls.attributes |-> e[a]] :
                                                e \in StoredEntities(i)} : i \in StoredIds}] :
                    \A i \in StoredIds : st[i]["active"] = PyBool(TRUE)
                                         /\ ("id" \in DOMAIN st[i] => st[i]["id"] = PyInt(i))}
    /\ on_delete_calls = [i \in StoredIds |-> 0]
    /\ session_adds = 0
    /\ call = [op |-> "none"]

\* item.serialize(requester, exclude) on the stored entity i.
Serialize(i, requester, exclude) ==
    /\ call.op = "none"
    /\ call' = [op |-> "serialize", target |-> i, requester |-> requester,
                exclude |-> exclude, result |-> serialize(cls, store[i], requester, exclude)]
    /\ UNCHANGED <<cls, store, on_delete_calls, session_adds>>

SerializeCall ==
    Idle /\ \E i \in StoredIds, requester \in Requesters, exclude \in Excludes :
                Serialize(i, requester, exclude)

NextSerialize ==
    \/ SerializeCall
    \/ Return

SpecSerialize == InitSerialize /\ [][NextSerialize]_vars

\* --------------------------------------------------- the filter builder alone
\* A filter key has at most MaxSegments dot-separated segments, an argument
\* mapping at most MaxArgs keys.
MaxSegments == 3

MaxArgs == 2

\* First segments: a column, a method of the class, and a name the class
\* does not have.
FirstSegments == {"active", "delete", "bogus"}

SecondSegments == {"like", "in", "lessthan", "nope"}

Segments == FirstSegments \cup SecondSegments \cup {"baz"}

\* key.split('.') of the keys of a request.
FilterKeys ==
    {k \in UNION {[1..n -> Segments] : n \in 1..MaxSegments} :
        /\ k[1] \in FirstSegments
        /\ Len(k) >= 2 => k[2] \in SecondSegments
        /\ \A i \in 3..Len(k) : k[i] = "baz"}

\* args.getlist(key) of the keys of a request.
FilterValues == {<<PyStr("")>>, <<PyStr("true")>>}

\* A key of more than two segments is never looked up: one value will do.
FilterEntries ==
    {e \in {[key |-> k, values |-> v] : k \in FilterKeys, v \in FilterValues} :
        Len(e.key) > 2 => e.values = <<PyStr("true")>>}

\* The argument mappings: entries with distinct keys, in the order of keys().
FilterArgs ==
    {a \in UNION {[1..n -> FilterEntries] : n \in 0..MaxArgs} :
        \A i, j \in 1..Len(a) : i # j => a[i].key # a[j].key}

InitFilter ==
    /\ cls = WriteClass({}, {}, {}, {})
    /\ store = [i \in StoredIds |-> CHOOSE e \in StoredEntities(i) : e["when"] = PyNone]
    /\ on_delete_calls = [i \in StoredIds |-> 0]
    /\ session_adds = 0
    /\ call = [op |-> "none"]

\* cls._args_to_filter_params(args).
ArgsToFilterParams(args) ==
    LET r == args_to_filter_params(cls, args)
    IN  /\ call.op = "none"
        /\ call' = [op |-> "filter", args |-> args, raised |-> r.raised,
                    returned |-> r.raised = "none",
                    filters |-> IF r.raised = "none" THEN r.filters ELSE <<>>]
        /\ UNCHANGED <<cls, store, on_delete_calls, session_adds>>

FilterCall == Idle /\ \E args \in FilterArgs : ArgsToFilterParams(args)

NextFilter ==
    \/ FilterCall
    \/ Return

SpecFilter == InitFilter /\ [][NextFilter]_vars

\* ------------------------------------------------------------------- claims
IsActive(e) == Truthy(e["active"])

\* C1: delete is idempotent and one-way.  Every delete call leaves active
\* false; an entity that is inactive stays inactive; on_delete is invoked at
\* most once per entity in total; a delete call on an inactive entity changes
\* no attribute, adds nothing to the session and invokes no hook.
C1_DeleteIdempotentOneWay ==
    [][/\ \A i \in StoredIds : ~IsActive(store[i]) => ~IsActive(store'[i])
       /\ \A i \in StoredIds : on_delete_calls'[i] <= 1
       /\ call'.op = "delete" =>
             /\ ~IsActive(store'[call'.target])
             /\ ~IsActive(call'.before) =>
                   /\ store' = store
                   /\ on_delete_calls' = on_delete_calls
                   /\ session_adds' = session_adds
                   /\ ~call'.session_add /\ ~call'.on_delete]_vars

\* A second delete call on an entity whose first delete invoked the hook.
C1_Witness ==
    /\ call.op = "delete"
    /\ ~IsActive(call.before)
    /\ on_delete_calls[call.target] = 1
    /\ session_adds = 1

\* C2: admin_deserialize_add raises the validation error exactly when a name
\* of MANDATORY_FIELDS is no key of data, and returns the new entity when
\* every mandatory name is a key.
C2_AddValidatesMandatory ==
    call.op = "add" =>
        LET missing == \E f \in cls.MANDATORY_FIELDS : f \notin DOMAIN call.data
        IN  /\ (call.raised = "ValidationException") <=> missing
            /\ ~missing => call.raised = "none" /\ call.returned = "new"

\* A validation failure: the mandatory key is missing although another key
\* is present.
C2_Witness ==
    /\ call.op = "add"
    /\ call.raised = "ValidationException"
    /\ cls.MANDATORY_FIELDS = {"when"}
    /\ DOMAIN call.data = {"name"}

\* C3: serialize returns None for an absent requester; otherwise its keys are
\* exactly (T minus exclude) plus id when the entity has an id, T being the
\* administrator list for an administrator and the standard list otherwise.
C3_SerializeKeys ==
    call.op = "serialize" =>
        LET T == IF call.requester.is_administrator THEN cls.ADMIN_READABLE_FIELDS
                 ELSE cls.STANDARD_READABLE_FIELDS
            withId == IF "id" \in DOMAIN store[call.target] THEN {"id"} ELSE {}
        IN  IF ~call.requester.present
            THEN call.result.none
            ELSE /\ ~call.result.none
                 /\ call.result.raised = "none"
                 /\ DOMAIN call.result.dict = (T \ call.exclude) \cup withId

\* id is a key although excluded, and another excluded readable name is not.
C3_Witness ==
    /\ call.op = "serialize"
    /\ call.requester.present /\ ~call.requester.is_administrator
    /\ call.exclude = {"id", "name"}
    /\ cls.STANDARD_READABLE_FIELDS = {"id", "name", "when"}
    /\ DOMAIN call.result.dict = {"id", "when"}

\* C4: an update (add=false) changes no attribute outside WRITEABLE_FIELDS
\* that has no custom deserializer, whatever the data; the add path stores
\* the given value of a field that is mandatory or writable once.
C4_UpdateFrame ==
    LET frame == {a \in Columns : a \notin cls.WRITEABLE_FIELDS
                                  /\ a \notin cls.custom_deserializers}
    IN  /\ call.op \in {"update", "roundtrip"} =>
              \A a \in frame : store[call.target][a] = call.before[a]
        /\ call.op = "deserialize" =>
              \A i \in StoredIds : \A a \in frame : store[i][a] = call.before[i][a]
        /\ call.op = "add" /\ call.raised = "none" =>
              \A f \in (cls.MANDATORY_FIELDS \cup cls.WRITEABLE_ONCE_FIELDS)
                        \cap DOMAIN call.data :
                  f \notin cls.custom_deserializers => call.item[f] = call.data[f]

\* An update that names a new value for a field that is only writable once
\* leaves it as it was.
C4_Witness ==
    /\ call.op = "update"
    /\ "when" \in cls.WRITEABLE_ONCE_FIELDS
    /\ "when" \notin cls.WRITEABLE_FIELDS \cup cls.MANDATORY_FIELDS
    /\ "when" \in DOMAIN call.data
    /\ call.data["when"] # call.before["when"]
    /\ call.before["when"].type = "datetime"
    /\ call.raised = "none"
    /\ store[call.target]["when"] = call.before["when"]

\* C5 as stated: a delete call flips active from true to false only for a
\* requester with delete rights.
C5_DeleteGatedByRights ==
    (call.op = "delete" /\ IsActive(call.before) /\ ~IsActive(store[call.target]))
        => has_delete_rights(cls, call.requester)

\* C5 amended: delete is not itself gated.  A delete call on an active entity
\* sets active to false and invokes on_delete for every requester, with or
\* without delete rights; has_delete_rights is true exactly for a requester
\* that exists and is an administrator, whatever admin_can_delete is.
C5_DeleteUngated ==
    call.op = "delete" =>
        /\ IsActive(call.before) => ~IsActive(store[call.target]) /\ call.on_delete
        /\ has_delete_rights(cls, call.requester)
              <=> (call.requester.present /\ call.requester.is_administrator)

\* A requester who is no administrator deactivates an entity of a class that
\* sets admin_can_delete.
C5_Witness ==
    /\ call.op = "delete"
    /\ call.requester.present /\ ~call.requester.is_administrator
    /\ cls.PERMISSIONS.admin_can_delete
    /\ ~has_delete_rights(cls, call.requester)
    /\ IsActive(call.before) /\ ~IsActive(store[call.target])
    /\ call.on_delete

\* C6 as stated: the round trip completes without error and changes nothing.
C6_RoundTripUnchanged ==
    call.op = "roundtrip" =>
        /\ call.raised = "none"
        /\ call.assigned = {}
        /\ store[call.target] = call.before

\* C7 as stated: an update of a writable date/time field with a text that
\* denotes the same instant leaves the value and assigns nothing.
C7_SameInstantNoWrite ==
    (/\ call.op = "update"
     /\ "when" \in DOMAIN call.data
     /\ "when" \in cls.WRITEABLE_FIELDS \ cls.custom_deserializers
     /\ call.before["when"].type = "datetime"
     /\ IsDateString(call.data["when"])
     /\ Instant(call.data["when"]) = Instant(call.before["when"]))
        => /\ store[call.target]["when"] = call.before["when"]
           /\ "when" \notin call.assigned

\* The entries of args whose first segment is an attribute of the class.
KnownBase(entry) == ClassHasattr(cls, entry.key[1])

\* C8 as stated: a key of more than two segments, or one whose first segment
\* names no field, makes the call fail with the unknown-filter error.
C8_LongOrUnknownKeyFails ==
    call.op = "filter" =>
        ((\E i \in 1..Len(call.args) :
             Len(call.args[i].key) > 2 \/ ~KnownBase(call.args[i]))
         => call.raised = UnknownFilter /\ ~call.returned)

\* C8 amended: a key of more than two segments whose first segment is an
\* attribute of the class makes the call fail, with the unknown-filter error
\* unless an earlier key failed first; a key whose first segment is no
\* attribute of the class is ignored: the outcome is that of the mapping
\* without it.
C8_LongKnownKeyFails ==
    call.op = "filter" =>
        LET args == call.args
            known == SelectSeq(args, KnownBase)
            without == args_to_filter_params(cls, known)
        IN  /\ \A i \in 1..Len(args) :
                  (Len(args[i].key) > 2 /\ KnownBase(args[i])) =>
                      /\ ~call.returned
                      /\ (\A j \in 1..(i - 1) :
                             args_to_filter_params(cls, <<args[j]>>).raised = "none")
                         => call.raised = UnknownFilter
            /\ call.raised = without.raised
            /\ call.returned => call.filters = without.filters
            /\ (\A i \in 1..Len(args) : ~KnownBase(args[i])) =>
                  call.returned /\ call.filters = <<ActiveFilter>>

\* A three-segment key with an unknown first segment is ignored beside a key
\* that contributes a filter.
C8_Witness ==
    /\ call.op = "filter"
    /\ Len(call.args) = 2
    /\ call.args[1].key = <<"bogus", "nope", "baz">>
    /\ call.args[2].key = <<"active">>
    /\ call.returned
    /\ Len(call.filters) = 2

\* C9: admin_deserialize with an id that resolves applies the update path
\* (add=false) to that stored entity and returns it; with an id that resolves
\* to nothing it returns None and changes no stored entity; without an id,
\* or with a null one, its outcome is that of the add path.
C9_DeserializeDispatch ==
    call.op = "deserialize" =>
        LET d == call.data
            hasId == "id" \in DOMAIN d /\ d["id"] # PyNone
            found == {i \in StoredIds : hasId /\ call.before[i]["id"] = d["id"]}
        IN  /\ (hasId /\ found # {}) =>
                  \E i \in found, order \in Orders(DOMAIN d) :
                      LET u == admin_deserialize_update(cls, call.before[i], d, order, FALSE)
                      IN  /\ store = [call.before EXCEPT ![i] = u.item]
                          /\ call.raised = u.raised
                          /\ u.raised = "none" =>
                                call.returned = "stored" /\ call.item = store[i]
            /\ (hasId /\ found = {}) =>
                  /\ call.returned = "None"
                  /\ call.raised = "none"
                  /\ store = call.before
            /\ ~hasId =>
                  /\ store = call.before
                  /\ \E order \in Orders(DOMAIN d) :
                        LET a == admin_deserialize_add(cls, d, order)
                        IN  /\ call.raised = a.raised
                            /\ call.returned = a.returned
                            /\ call.item = a.item
                  /\ call.raised = "none" => call.returned = "new"

\* An id that resolves to an inactive entity: the update is applied to it.
C9_Witness ==
    /\ call.op = "deserialize"
    /\ call.returned = "stored"
    /\ ~IsActive(call.before[1])
    /\ store # call.before

\* C10 as stated: the value an update assigns to a field whose current value
\* is a date/time is the naive date/time parsed from the input.
C10_AssignsParsedDateTime ==
    (/\ call.op = "update"
     /\ "when" \in call.assigned
     /\ call.before["when"].type = "datetime")
        => store[call.target]["when"]
              = ReplaceTzinfoNone(DateutilParse(call.data["when"]).value)

====
